---- MODULE Spec2Model ----
(***************************************************************************)
(* danCryptoMentorApp (src/crypto_mentor_app.py): the decision engine      *)
(* mentor_decision, the row-profile extremum detector                      *)
(* detect_peaks_troughs, the price fetch get_price and the per-file main   *)
(* loop of the Streamlit script.                                           *)
(*                                                                         *)
(* Conventions.                                                            *)
(*  - Python sequences are 0-indexed; the model keeps Python's indices and *)
(*    reads them with At(s, i) == s[i + 1].                                *)
(*  - The smoothed profile is held in tenths: np.ones(10)/10 weighs every  *)
(*    sample by 1/10, so ten times the profile is the integer window sum.  *)
(*    Comparisons between profile values are unchanged by that scaling.    *)
(*  - Python's None is the string "None".                                  *)
(*  - The emoji prefix of the three signals is dropped: "LONG", "SHORT",   *)
(*    "WAIT".                                                              *)
(***************************************************************************)
EXTENDS Integers, Sequences, FiniteSets, TLC

VARIABLES
    pc,            \* position of the script / of the function under study
    indicators,    \* dict returned by mock_indicators, or None
    signal,        \* first component of mentor_decision's result, or None
    explanation,   \* second component of mentor_decision's result, or None
    hist,          \* row sums of the edge map (np.sum(edges, axis=1))
    hist_smooth,   \* smoothed profile, in tenths
    peaks,         \* list of peak indices
    troughs,       \* list of trough indices
    leverage,      \* slider value
    status,        \* per uploaded file: "pending", "analysed" or "failed"
    image,         \* img_array of the file being analysed, or None
    response,      \* outcome of requests.get in get_price, or None
    price,         \* value returned by get_price (NoPrice for None)
    earlier        \* the section rendered before the current one, if any: <<>> or <<s>>

vars == <<pc, indicators, signal, explanation, hist, hist_smooth, peaks, troughs,
          leverage, status, image, response, price, earlier>>

None == "None"

\* the None that get_price returns, kept apart from every price
NoPrice == -1

At(s, i) == s[i + 1]

(***************************************************************************)
(* Decision engine: mentor_decision, lines 77-87.                          *)
(***************************************************************************)
UpperBand == "Price near Upper Band"
LowerBand == "Price near Lower Band"

\* line 78
Rule1(rsi, macd, bollinger) == rsi < 30 /\ macd = "Bullish"

\* line 80
Rule2(rsi, macd, bollinger) == rsi > 70 /\ macd = "Bearish"

Rule3NoMacd(rsi, macd, bollinger) == bollinger = UpperBand

\* line 82
Rule3(rsi, macd, bollinger) == bollinger = UpperBand /\ macd = "Bearish"

\* line 84
Rule4(rsi, macd, bollinger) == bollinger = LowerBand /\ macd = "Bullish"

RuleHolds(k, rsi, macd, bollinger) ==
    CASE k = 1 -> Rule1(rsi, macd, bollinger)
      [] k = 2 -> Rule2(rsi, macd, bollinger)
      [] k = 3 -> Rule3(rsi, macd, bollinger)
      [] k = 4 -> Rule4(rsi, macd, bollinger)

BranchRule3Long(k) ==
    CASE k = 1 -> <<"LONG", "Strong upside signal based on RSI < 30 and bullish MACD.">>
      [] k = 2 -> <<"SHORT", "RSI > 70 with bearish MACD suggests downside.">>
      [] k = 3 -> <<"LONG", "Near upper Bollinger Band with bearish MACD.">>
      [] k = 4 -> <<"LONG", "Near lower Bollinger Band with bullish MACD.">>
      [] k = 5 -> <<"WAIT", "Conditions not favorable for entry.">>

\* the value returned by the k-th branch of the if/elif/else chain
Branch(k) ==
    CASE k = 1 -> <<"LONG", "Strong upside signal based on RSI < 30 and bullish MACD.">>
      [] k = 2 -> <<"SHORT", "RSI > 70 with bearish MACD suggests downside.">>
      [] k = 3 -> <<"SHORT", "Near upper Bollinger Band with bearish MACD.">>
      [] k = 4 -> <<"LONG", "Near lower Bollinger Band with bullish MACD.">>
      [] k = 5 -> <<"WAIT", "Conditions not favorable for entry.">>

RuleOrderBandsFirst == <<3, 4, 1, 2>>

\* the order in which the chain tests its four conditions
RuleOrder == <<1, 2, 3, 4>>

\* an if/elif chain testing the rules of `order` from position j on; else branch 5
RECURSIVE EvalChain(_, _, _, _, _)
EvalChain(order, j, rsi, macd, bollinger) ==
    IF j > Len(order) THEN Branch(5)
    ELSE IF RuleHolds(order[j], rsi, macd, bollinger) THEN Branch(order[j])
    ELSE EvalChain(order, j + 1, rsi, macd, bollinger)

mentor_decision(rsi, macd, bollinger) == EvalChain(RuleOrder, 1, rsi, macd, bollinger)

(***************************************************************************)
(* Extremum detector: detect_peaks_troughs, lines 61-74.                   *)
(* Lines 62-64 (grayscale, blur, Canny) produce an edge map whose pixels   *)
(* are 0 or EdgeValue; the model starts from its row sums, line 65.        *)
(***************************************************************************)
EdgeValue == 255

\* length of the averaging kernel np.ones(10)/10
Window == 10

Min(a, b) == IF a < b THEN a ELSE b

Max(a, b) == IF a > b THEN a ELSE b

\* a[lo] + ... + a[hi] (Python indices), 0 when lo > hi
RECURSIVE SumRange(_, _, _)
SumRange(a, lo, hi) == IF lo > hi THEN 0 ELSE At(a, lo) + SumRange(a, lo + 1, hi)

\* element k of the full convolution of a with n ones: the samples a[j] with 0 <= k-j < n
FullAt(a, n, k) == SumRange(a, Max(0, k - n + 1), Min(Len(a) - 1, k))

\* np.convolve(a, ones(n), mode='same'): max(len(a), n) elements of the full
\* convolution, starting after the (m-1) - m div 2 leading ones, m the shorter length
ConvolveSame(a, n) ==
    LET m     == Min(Len(a), n)
        start == (m - 1) - (m \div 2)
    IN  [i \in 1..Max(Len(a), n) |-> FullAt(a, n, start + i - 1)]

\* line 66, in tenths
Smooth(rowsums) == ConvolveSame(rowsums, Window)

IsPeakLoose(P, i) == At(P, i - 1) <= At(P, i) /\ At(P, i) > At(P, i + 1)

\* line 70
IsPeak(P, i) == At(P, i - 1) < At(P, i) /\ At(P, i) > At(P, i + 1)

IsTroughLoose(P, i) == At(P, i - 1) > At(P, i) /\ At(P, i) <= At(P, i + 1)

\* line 72
IsTrough(P, i) == At(P, i - 1) > At(P, i) /\ At(P, i) < At(P, i + 1)

\* the for loop of lines 69-73 from index i on, pk and tr the lists built so far
RECURSIVE ScanFrom(_, _, _, _)
ScanFrom(P, i, pk, tr) ==
    IF i >= Len(P) - 1 THEN <<pk, tr>>
    ELSE IF IsPeak(P, i) THEN ScanFrom(P, i + 1, Append(pk, i), tr)
    ELSE IF IsTrough(P, i) THEN ScanFrom(P, i + 1, pk, Append(tr, i))
    ELSE ScanFrom(P, i + 1, pk, tr)

\* lines 67-74
ExtremumScan(P) == ScanFrom(P, 1, <<>>, <<>>)

\* lines 65-74, from the row sums of the edge map
detect_peaks_troughs(rowsums) == ExtremumScan(Smooth(rowsums))

(***************************************************************************)
(* Bounds of the checked instances.                                        *)
(***************************************************************************)
RsiMax == 100
MaxLen == 5
MaxVal == 4
MaxH == 12
MaxFiles == 2

IndicatorStates ==
    [RSI : 0..RsiMax, MACD : {"Bullish", "Bearish"}, Bollinger : {UpperBand, LowerBand}]

Profiles == UNION {[1..n -> 0..MaxVal] : n \in 0..MaxLen}

\* a row of the edge map holds no edge pixel or one
RowSums == {0, EdgeValue}

RowSumVectors == UNION {[1..h -> RowSums] : h \in 1..MaxH}

(***************************************************************************)
(* SpecDecision: mentor_decision applied to every IndicatorState.          *)
(***************************************************************************)
LoopIdle ==
    /\ leverage = None /\ status = <<>> /\ image = None
    /\ response = None /\ price = NoPrice /\ earlier = <<>>

InitDecision ==
    /\ pc = "start"
    /\ indicators \in IndicatorStates
    /\ signal = None /\ explanation = None
    /\ hist = <<>> /\ hist_smooth = <<>> /\ peaks = <<>> /\ troughs = <<>>
    /\ LoopIdle

CallMentorDecision ==
    /\ pc = "start"
    /\ LET d == mentor_decision(indicators.RSI, indicators.MACD, indicators.Bollinger)
       IN  signal' = d[1] /\ explanation' = d[2]
    /\ pc' = "done"
    /\ UNCHANGED <<indicators, hist, hist_smooth, peaks, troughs,
                   leverage, status, image, response, price, earlier>>

NextDecision == CallMentorDecision

SpecDecision == InitDecision /\ [][NextDecision]_vars

(***************************************************************************)
(* SpecScan: the extremum scan applied to every profile.                   *)
(***************************************************************************)
InitScan ==
    /\ pc = "smoothed"
    /\ hist_smooth \in Profiles
    /\ hist = <<>> /\ peaks = <<>> /\ troughs = <<>>
    /\ indicators = None /\ signal = None /\ explanation = None
    /\ LoopIdle

RunScan ==
    /\ pc = "smoothed"
    /\ LET r == ExtremumScan(hist_smooth)
       IN  peaks' = r[1] /\ troughs' = r[2]
    /\ pc' = "done"
    /\ UNCHANGED <<indicators, signal, explanation, hist, hist_smooth,
                   leverage, status, image, response, price, earlier>>

NextScan == RunScan

SpecScan == InitScan /\ [][NextScan]_vars

(***************************************************************************)
(* SpecExtract: detect_peaks_troughs applied to every row-sum vector.      *)
(***************************************************************************)
InitExtract ==
    /\ pc = "start"
    /\ hist \in RowSumVectors
    /\ hist_smooth = <<>> /\ peaks = <<>> /\ troughs = <<>>
    /\ indicators = None /\ signal = None /\ explanation = None
    /\ LoopIdle

CallDetect ==
    /\ pc = "start"
    /\ hist_smooth' = Smooth(hist)
    /\ LET r == ExtremumScan(hist_smooth')
       IN  peaks' = r[1] /\ troughs' = r[2]
    /\ pc' = "done"
    /\ UNCHANGED <<indicators, signal, explanation, hist,
                   leverage, status, image, response, price, earlier>>

NextExtract == CallDetect

SpecExtract == InitExtract /\ [][NextExtract]_vars

(***************************************************************************)
(* Price fetch: get_price, lines 30-37.                                    *)
(* A response is what requests.get produced: kind "network_error" when it  *)
(* raised (status 0: there is no response), otherwise the HTTP status and  *)
(* what the body holds: "not_json", "json_no_coin" (JSON without the coin  *)
(* identifier), "json_no_usdt" (the identifier without the usdt field) or  *)
(* "json_price" (the identifier mapped to a usdt field, value usdt).       *)
(***************************************************************************)
Responses ==
    {[kind |-> "network_error", status |-> 0, usdt |-> NoPrice]}
    \cup [kind : {"not_json", "json_no_coin", "json_no_usdt"}, status : {200, 500},
          usdt : {NoPrice}]
    \cup [kind : {"json_price"}, status : {200, 500}, usdt : {42000}]

\* line 33: requests.get raises
GetRaises(r) == r.kind = "network_error"

\* line 34: response.json() raises
JsonRaises(r) == r.kind = "not_json"

\* line 35: data[coin_id]['usdt'] raises
LookupRaises(r) == r.kind \in {"json_no_coin", "json_no_usdt"}

\* lines 32-37: the bare except turns every exception into None
get_price(r) ==
    IF GetRaises(r) \/ JsonRaises(r) \/ LookupRaises(r) THEN NoPrice ELSE r.usdt

(***************************************************************************)
(* Main loop, lines 102-137, one script run after another.                 *)
(***************************************************************************)
LevMin == 3
LevMax == 30
LevDefault == 10
MockRsiLo == 20
MockRsiHi == 80

\* slider values the user moves to: the ends of the range (the first run has the default)
Leverages == {LevMin, LevMax}

\* values of random.randint(20, 80) tried: the ends and the middle (every RSI value is
\* tried on mentor_decision itself under SpecDecision)
MockRsiValues == {MockRsiLo, 50, MockRsiHi}

\* lines 53-58
MockIndicatorStates ==
    [RSI : MockRsiValues, MACD : {"Bullish", "Bearish"}, Bollinger : {UpperBand, LowerBand}]

FlatHist == [i \in 1..12 |-> 0]

WavyHist == [i \in 1..12 |-> IF i \in {1, 10, 12} THEN EdgeValue ELSE 0]

\* decoded uploads: channels is the last dimension of np.array(image) (1 stands for
\* the 2-D array of a grayscale or palette image, which cv2.cvtColor rejects)
Images ==
    {[channels |-> 1, hist |-> FlatHist],
     [channels |-> 3, hist |-> FlatHist],
     [channels |-> 3, hist |-> WavyHist]}

\* line 62: cv2.cvtColor(image, cv2.COLOR_BGR2GRAY) raises on a single-channel array
CvtColorRaises(img) == img.channels = 1

MainDecisionGatedOnPeaks(ind, pr, pk, tr, lev) ==
    IF Len(pk) = 0 THEN Branch(5) ELSE mentor_decision(ind.RSI, ind.MACD, ind.Bollinger)

\* line 127: what the loop passes to the decision engine
MainDecision(ind, pr, pk, tr, lev) == mentor_decision(ind.RSI, ind.MACD, ind.Bollinger)

Pending == {i \in DOMAIN status : status[i] = "pending"}

\* the file the for loop of line 104 is at
Cur == CHOOSE i \in Pending : \A j \in Pending : i <= j

\* what the page shows for the file last analysed
Section ==
    [indicators |-> indicators, price |-> price, npeaks |-> Len(peaks),
     ntroughs |-> Len(troughs), leverage |-> leverage,
     signal |-> signal, explanation |-> explanation]

\* the loop variables are assigned anew before they are read in each iteration
FreshLocals ==
    /\ response' = None /\ price' = NoPrice /\ indicators' = None
    /\ peaks' = <<>> /\ troughs' = <<>> /\ signal' = None /\ explanation' = None
    /\ earlier' = IF signal # None THEN <<Section>> ELSE earlier

Init ==
    /\ pc = "done"
    /\ leverage = LevDefault
    /\ status = <<>>
    /\ image = None /\ response = None /\ price = NoPrice /\ indicators = None
    /\ signal = None /\ explanation = None
    /\ hist = <<>> /\ hist_smooth = <<>> /\ peaks = <<>> /\ troughs = <<>>
    /\ earlier = <<>>

\* a widget changes (lines 24, 26) and Streamlit runs the script again from the top
Rerun ==
    /\ pc \in {"done", "crashed"}
    /\ \E lev \in Leverages, n \in 0..MaxFiles :
        /\ leverage' = lev
        /\ status' = [i \in 1..n |-> "pending"]
        /\ pc' = IF n = 0 THEN "done" ELSE "open"
    /\ FreshLocals
    /\ image' = None
    /\ UNCHANGED <<hist, hist_smooth>>

\* lines 105-108: Image.open raises on a file that is no image
OpenFile ==
    /\ pc = "open"
    /\ \E readable \in BOOLEAN, img \in Images :
        IF readable
        THEN /\ FreshLocals
             /\ image' = img
             /\ pc' = "price"
             /\ UNCHANGED status
        ELSE /\ status' = [status EXCEPT ![Cur] = "failed"]
             /\ pc' = "crashed"
             /\ UNCHANGED <<image, response, price, indicators, peaks, troughs,
                            signal, explanation, earlier>>
    /\ UNCHANGED <<hist, hist_smooth, leverage>>

\* lines 110-115
FetchPrice ==
    /\ pc = "price"
    /\ \E r \in Responses :
        /\ response' = r
        /\ price' = get_price(r)
    /\ pc' = "indicators"
    /\ UNCHANGED <<indicators, signal, explanation, hist, hist_smooth, peaks, troughs,
                   leverage, status, image, earlier>>

\* lines 117-121
MockIndicators ==
    /\ pc = "indicators"
    /\ indicators' \in MockIndicatorStates
    /\ response' = None
    /\ pc' = "detect"
    /\ UNCHANGED <<signal, explanation, hist, hist_smooth, peaks, troughs,
                   leverage, status, image, price, earlier>>

\* lines 123-125
Detect ==
    /\ pc = "detect"
    /\ IF CvtColorRaises(image)
       THEN /\ status' = [status EXCEPT ![Cur] = "failed"]
            /\ pc' = "crashed"
            /\ UNCHANGED <<peaks, troughs>>
       ELSE /\ LET r == detect_peaks_troughs(image.hist)
               IN  peaks' = r[1] /\ troughs' = r[2]
            /\ pc' = "decide"
            /\ UNCHANGED status
    /\ UNCHANGED <<indicators, signal, explanation, hist, hist_smooth,
                   leverage, image, response, price, earlier>>

\* lines 127-135, and the for loop's step to the next file
Decide ==
    /\ pc = "decide"
    /\ LET d == MainDecision(indicators, price, peaks, troughs, leverage)
       IN  signal' = d[1] /\ explanation' = d[2]
    /\ status' = [status EXCEPT ![Cur] = "analysed"]
    /\ pc' = IF Pending = {Cur} THEN "done" ELSE "open"
    /\ UNCHANGED <<indicators, hist, hist_smooth, peaks, troughs,
                   leverage, image, response, price, earlier>>

Next == Rerun \/ OpenFile \/ FetchPrice \/ MockIndicators \/ Detect \/ Decide

Spec == Init /\ [][Next]_vars

(***************************************************************************)
(* Properties.                                                             *)
(***************************************************************************)
Elems(s) == {s[k] : k \in 1..Len(s)}

StrictlyIncreasing(s) == \A k \in 1..Len(s) - 1 : s[k] < s[k + 1]

StrictlyDecreasing(s) == \A k \in 1..Len(s) - 1 : s[k] > s[k + 1]

AllEqual(s) == \A k \in 1..Len(s) - 1 : s[k] = s[k + 1]

\* the rules 1-4 whose condition holds of the current indicators
Matching ==
    {k \in 1..4 : RuleHolds(k, indicators.RSI, indicators.MACD, indicators.Bollinger)}

\* C1: mentor_decision returns the signal and rationale of the first of the rules
\* 1..5, in that order, whose condition holds (rule 5 is the default), and the signal
\* is one of LONG, SHORT, WAIT.
C1_FirstMatchingRule ==
    pc = "done" =>
        LET r   == indicators.RSI
            m   == indicators.MACD
            b   == indicators.Bollinger
            c1  == r < 30 /\ m = "Bullish"
            c2  == r > 70 /\ m = "Bearish"
            c3  == b = "Price near Upper Band" /\ m = "Bearish"
            c4  == b = "Price near Lower Band" /\ m = "Bullish"
            out == <<signal, explanation>>
        IN  /\ signal \in {"LONG", "SHORT", "WAIT"}
            /\ c1 =>
                 out = <<"LONG", "Strong upside signal based on RSI < 30 and bullish MACD.">>
            /\ (~c1 /\ c2) =>
                 out = <<"SHORT", "RSI > 70 with bearish MACD suggests downside.">>
            /\ (~c1 /\ ~c2 /\ c3) =>
                 out = <<"SHORT", "Near upper Bollinger Band with bearish MACD.">>
            /\ (~c1 /\ ~c2 /\ ~c3 /\ c4) =>
                 out = <<"LONG", "Near lower Bollinger Band with bullish MACD.">>
            /\ (~c1 /\ ~c2 /\ ~c3 /\ ~c4) =>
                 out = <<"WAIT", "Conditions not favorable for entry.">>

\* RSI=25, Bullish, lower band: rules 1 and 4 both hold and rule 1's result is returned
C1_Witness ==
    /\ pc = "done"
    /\ indicators = [RSI |-> 25, MACD |-> "Bullish", Bollinger |-> LowerBand]
    /\ signal = "LONG"
    /\ explanation = "Strong upside signal based on RSI < 30 and bullish MACD."

\* C9 as stated: at most one of the conditions of rules 1-4 holds of any IndicatorState.
C9_AtMostOneRuleHolds == pc = "done" => Cardinality(Matching) <= 1

\* C9 as amended: the conditions that hold together are rules 1 and 4 (both LONG) or
\* rules 2 and 3 (both SHORT), never a LONG rule with a SHORT rule.
C9_OverlapOnlyWithinSignal ==
    pc = "done" => (Matching \subseteq {1, 4} \/ Matching \subseteq {2, 3})

C9_Witness == pc = "done" /\ Matching = {1, 4} /\ signal = "LONG"

\* C10: mentor_decision returns LONG only with a Bullish MACD and SHORT only with a
\* Bearish MACD, and testing rules 1-4 in any other order returns the same signal.
C10_SignalFollowsMacd ==
    pc = "done" =>
        /\ signal = "LONG" => indicators.MACD = "Bullish"
        /\ signal = "SHORT" => indicators.MACD = "Bearish"
        /\ \A order \in Permutations(1..4) :
             EvalChain(order, 1, indicators.RSI, indicators.MACD,
                       indicators.Bollinger)[1] = signal

\* rules 2 and 3 both hold: the order decides the rationale but not the signal
C10_Witness ==
    /\ pc = "done" /\ Matching = {2, 3} /\ signal = "SHORT"
    /\ \E order \in Permutations(1..4) :
         EvalChain(order, 1, indicators.RSI, indicators.MACD,
                   indicators.Bollinger)[2] # explanation

\* C2: on a profile P of length >= 3 the scan reports i as a peak exactly when
\* 1 <= i <= len(P)-2 and P[i-1] < P[i] > P[i+1], and as a trough exactly when
\* 1 <= i <= len(P)-2 and P[i-1] > P[i] < P[i+1]; 0 and len(P)-1 are never reported.
C2_ScanReportsExactlyStrictExtrema ==
    (pc = "done" /\ Len(hist_smooth) >= 3) =>
        LET P == hist_smooth
            n == Len(hist_smooth)
        IN  /\ Elems(peaks) \subseteq 1..n - 2
            /\ Elems(troughs) \subseteq 1..n - 2
            /\ \A i \in 0..n - 1 :
                /\ i \in Elems(peaks) <=>
                     (1 <= i /\ i <= n - 2 /\ P[i] < P[i + 1] /\ P[i + 1] > P[i + 2])
                /\ i \in Elems(troughs) <=>
                     (1 <= i /\ i <= n - 2 /\ P[i] > P[i + 1] /\ P[i + 1] < P[i + 2])

\* a profile with a peak, a trough and a flat start
C2_Witness ==
    /\ pc = "done" /\ Len(hist_smooth) >= 3
    /\ peaks # <<>> /\ troughs # <<>>
    /\ hist_smooth[1] = hist_smooth[2]

\* C8: a strictly increasing, strictly decreasing or constant profile has no peak and
\* no trough, and no index with an equal neighbour is reported.
C8_NoExtremumOnMonotoneOrFlat ==
    pc = "done" =>
        /\ (StrictlyIncreasing(hist_smooth) \/ StrictlyDecreasing(hist_smooth)
              \/ AllEqual(hist_smooth)) => (peaks = <<>> /\ troughs = <<>>)
        /\ \A i \in Elems(peaks) \cup Elems(troughs) :
             At(hist_smooth, i) # At(hist_smooth, i - 1)
               /\ At(hist_smooth, i) # At(hist_smooth, i + 1)

\* a plateau of two samples below its neighbours: nothing is reported
C8_Witness ==
    /\ pc = "done" /\ Len(hist_smooth) = 4
    /\ hist_smooth[1] > hist_smooth[2] /\ hist_smooth[2] = hist_smooth[3]
    /\ hist_smooth[3] < hist_smooth[4]
    /\ peaks = <<>> /\ troughs = <<>>

\* C3 as stated: the smoothed profile is as long as the image is high, for every
\* height H >= 1.
C3_ProfileLengthIsHeight == pc = "done" => Len(hist_smooth) = Len(hist)

\* C6: for an image of height H with non-negative row sums, peaks and troughs are
\* strictly increasing, disjoint, hold only indices of 1..H-2, and are empty when H <= 2.
C6_ExtremaWithinImageRows ==
    pc = "done" =>
        LET H == Len(hist)
        IN  /\ StrictlyIncreasing(peaks)
            /\ StrictlyIncreasing(troughs)
            /\ Elems(peaks) \cap Elems(troughs) = {}
            /\ Elems(peaks) \cup Elems(troughs) \subseteq 1..H - 2
            /\ H <= 2 => (peaks = <<>> /\ troughs = <<>>)

C6_Witness == pc = "done" /\ peaks # <<>> /\ troughs # <<>>

\* C4 as stated: a file whose analysis fails does not keep the other files of the
\* batch from being analysed: when the script run is over, no file is left unanalysed.
C4_FailureDoesNotAbortBatch ==
    pc \in {"done", "crashed"} => \A j \in DOMAIN status : status[j] # "pending"

\* C5 as stated: get_price returns None on a network error, a status that is not 2xx,
\* a body that is not JSON or lacks the coin or its price field, and a price only when
\* the body maps the coin to a price field.
C5_PriceUnavailableOnEveryFailure ==
    pc = "indicators" =>
        /\ (\/ response.kind \in {"network_error", "not_json", "json_no_coin",
                                  "json_no_usdt"}
            \/ response.status \notin 200..299) => price = NoPrice
        /\ price # NoPrice => response.kind = "json_price"

\* C7: two rendered sections with the same indicators carry the same signal and
\* rationale, whatever their images, prices and leverage.
C7_DecisionDependsOnlyOnIndicators ==
    (signal # None /\ earlier # <<>> /\ earlier[1].indicators = indicators) =>
        (earlier[1].signal = signal /\ earlier[1].explanation = explanation)

C7_Witness ==
    /\ signal # None /\ earlier # <<>>
    /\ earlier[1].indicators = indicators
    /\ earlier[1].price # price
    /\ earlier[1].npeaks # Len(peaks)
    /\ earlier[1].leverage # leverage
    /\ earlier[1].signal = signal

====
